---- MODULE Spec2Model ----
(***************************************************************************)
(* Model of backend/app/core/config.py: the Settings class (pydantic       *)
(* BaseSettings), its validators and computed fields, and the module-level *)
(* `settings = Settings()`.                                                *)
(*                                                                         *)
(* Python strings are sequences of one-character strings, so that split,   *)
(* strip, startswith and rstrip are computed character by character.       *)
(* Python values are tagged records:                                       *)
(*   [t |-> "str", s |-> chars]   [t |-> "list", l |-> values]             *)
(*   [t |-> "int", n |-> n]       [t |-> "NoneType"]   [t |-> "dict"]      *)
(*   [t |-> "AnyUrl", s |-> chars]  (a validated URL object)               *)
(***************************************************************************)
EXTENDS Integers, Sequences, FiniteSets, TLC

VARIABLES
    environ,    \* os.environ: a function from the variable names that are set to their values
    dotenv,     \* the .env file in the working directory: [exists, vars]
    manifest,   \* pyproject.toml three directories above config.py
    lib,        \* behaviour of the installed pydantic: [escapes_userinfo]
    pc,         \* "start", "class" (class body executed), "ready" (settings bound), "failed"
    cls,        \* class-level values fixed when the class body ran
    draws,      \* number of calls of secrets.token_urlsafe so far
    snaps,      \* the Settings objects constructed so far; snaps[1] is `settings`
    error,      \* the exception the last operation raised, or NoError
    assigns,    \* number of attribute assignments attempted so far
    call        \* the last direct call of a module-level function: [fn, arg, out]

vars == <<environ, dotenv, manifest, lib, pc, cls, draws, snaps, error, assigns, call>>

----------------------------------------------------------------------------
(* Bounds of the model *)

\* longest string drawn for a direct call of parse_cors
MaxLen == 4
\* longest list drawn for a direct call of parse_cors
MaxList == 2

----------------------------------------------------------------------------
(* Python values *)

PyStr(s) == [t |-> "str", s |-> s]
PyList(l) == [t |-> "list", l |-> l]
PyInt(n) == [t |-> "int", n |-> n]
PyNone == [t |-> "NoneType"]
PyDict == [t |-> "dict"]
PyUrl(s) == [t |-> "AnyUrl", s |-> s]

\* the outcome of a call: a returned value, or a raised exception with its args
Returned(v) == [raised |-> FALSE, value |-> v]
Raised(exc, arg) == [raised |-> TRUE, exc |-> exc, arg |-> arg]

\* all strings over an alphabet, up to a length
StringsUpTo(alphabet, n) == UNION {[1..k -> alphabet] : k \in 0..n}

----------------------------------------------------------------------------
(* str methods used by the module *)

IsSpace(c) == c \in {" ", "\t", "\n", "\r"}

\* s.startswith(p)
StartsWith(s, p) == Len(s) >= Len(p) /\ SubSeq(s, 1, Len(p)) = p

\* s.lstrip()
RECURSIVE LStrip(_)
LStrip(s) == IF s # <<>> /\ IsSpace(Head(s)) THEN LStrip(Tail(s)) ELSE s

\* s.rstrip()
RECURSIVE RStripSpace(_)
RStripSpace(s) ==
    IF s # <<>> /\ IsSpace(s[Len(s)]) THEN RStripSpace(SubSeq(s, 1, Len(s) - 1)) ELSE s

\* s.strip()
Strip(s) == RStripSpace(LStrip(s))

\* s.rstrip(c) for a one-character c: removes every trailing c
RECURSIVE RStrip(_, _)
RStrip(s, c) ==
    IF s # <<>> /\ s[Len(s)] = c THEN RStrip(SubSeq(s, 1, Len(s) - 1), c) ELSE s

\* s.split(sep) for a one-character sep: "" gives [""], "a,,b" gives ["a", "", "b"]
RECURSIVE Split(_, _)
Split(s, sep) ==
    IF \A i \in 1..Len(s) : s[i] # sep
    THEN <<s>>
    ELSE LET i == CHOOSE k \in 1..Len(s) : s[k] = sep /\ \A j \in 1..(k - 1) : s[j] # sep
         IN  <<SubSeq(s, 1, i - 1)>> \o Split(SubSeq(s, i + 1, Len(s)), sep)

\* [f(x) for x in l if keep(x)] for the comprehension of parse_cors
RECURSIVE StrippedNonEmpty(_)
StrippedNonEmpty(pieces) ==
    IF pieces = <<>> THEN <<>>
    ELSE LET i == Strip(Head(pieces))
         IN  (IF i # <<>> THEN <<PyStr(i)>> ELSE <<>>) \o StrippedNonEmpty(Tail(pieces))

----------------------------------------------------------------------------
(* parse_cors *)

\* a plausible slip: the pieces are stripped but the empty ones are kept
RECURSIVE StrippedAll(_)
StrippedAll(pieces) ==
    IF pieces = <<>> THEN <<>>
    ELSE <<PyStr(Strip(Head(pieces)))>> \o StrippedAll(Tail(pieces))

parse_cors_keeps_empty(v) ==
    IF v.t = "str" /\ ~StartsWith(v.s, <<"[">>)
    THEN Returned(PyList(StrippedAll(Split(v.s, ","))))
    ELSE IF v.t \in {"list", "str"} THEN Returned(v) ELSE Raised("ValueError", v)

\* a plausible slip: every string is split, the "[" test is missing
parse_cors_splits_all(v) ==
    IF v.t = "str"
    THEN Returned(PyList(StrippedNonEmpty(Split(v.s, ","))))
    ELSE IF v.t = "list" THEN Returned(v) ELSE Raised("ValueError", v)

parse_cors(v) ==
    IF v.t = "str" /\ ~StartsWith(v.s, <<"[">>)
    THEN Returned(PyList(StrippedNonEmpty(Split(v.s, ","))))
    ELSE IF v.t \in {"list", "str"}
         THEN Returned(v)
         ELSE Raised("ValueError", v)

----------------------------------------------------------------------------
(* _load_app_version_from_pyproject *)

\* bool(v) of a TOML value, as `if not version` tests it
Truthy(v) ==
    CASE v.t = "str" -> v.s # <<>>
      [] v.t = "int" -> v.n # 0
      [] v.t = "list" -> v.l # <<>>
      [] OTHER -> FALSE

FallbackVersion == PyStr(<<"0", ".", "0", ".", "0">>)

\* A manifest is [state |-> "missing"], [state |-> "unreadable"] (open raises),
\* [state |-> "invalid"] (tomllib.load raises) or [state |-> "parsed", project |-> p];
\* p is [t |-> "absent"] (no project key), a table [t |-> "table", version |-> v]
\* with v a TOML value or [t |-> "absent"], or any other TOML value, on which
\* .get raises AttributeError. Every exception is caught by `except Exception`.

_load_app_version_from_pyproject(m) ==
    IF m.state = "missing" THEN FallbackVersion
    ELSE IF m.state \in {"unreadable", "invalid"} THEN FallbackVersion
    ELSE LET project == IF m.project.t = "absent"
                        THEN [t |-> "table", version |-> [t |-> "absent"]]
                        ELSE m.project
         IN  IF project.t # "table" THEN FallbackVersion
             ELSE IF ~Truthy(project.version) THEN FallbackVersion
             ELSE project.version

----------------------------------------------------------------------------
(* The Settings class *)

\* the primary fields, in declaration order
FieldOrder ==
    << "API_V1_STR", "PROJECT_NAME", "APP_VERSION", "PORT", "SECRET_KEY", "ENVIRONMENT",
       "FRONTEND_HOST", "BACKEND_CORS_ORIGINS", "POSTGRES_SERVER", "POSTGRES_PORT",
       "POSTGRES_USER", "POSTGRES_PASSWORD", "POSTGRES_DB" >>

Fields == {FieldOrder[i] : i \in DOMAIN FieldOrder}

IntFields == {"PORT", "POSTGRES_PORT"}

ComputedFields == {"all_cors_origins", "SQLALCHEMY_DATABASE_URI"}

EnvironmentLiterals ==
    { <<"l", "o", "c", "a", "l">>, <<"d", "e", "v", "e", "l", "o", "p", "m", "e", "n", "t">>,
      <<"s", "t", "a", "g", "i", "n", "g">>, <<"p", "r", "o", "d", "u", "c", "t", "i", "o", "n">> }

\* what secrets.token_urlsafe(32) can return (two of the 2^256 values)
Tokens == { <<"k", "1">>, <<"k", "2">> }

\* a plausible slip: TESTING is tested for presence, not for truthiness
ModelConfigPresence(env) ==
    [ env_file |-> IF "TESTING" \in DOMAIN env THEN "" ELSE ".env",
      env_ignore_empty |-> TRUE,
      extra |-> "ignore",
      case_sensitive |-> TRUE,
      frozen |-> FALSE,
      validate_assignment |-> FALSE ]

\* model_config as the class body computes it; env_file |-> "" stands for None
ModelConfig(env) ==
    [ env_file |-> IF "TESTING" \in DOMAIN env /\ env["TESTING"] # <<>> THEN "" ELSE ".env",
      env_ignore_empty |-> TRUE,
      extra |-> "ignore",
      case_sensitive |-> TRUE,
      frozen |-> FALSE,
      validate_assignment |-> FALSE ]

\* the field defaults, evaluated once, when the class body runs
Defaults(m, token) ==
    [ f \in Fields |->
        CASE f = "API_V1_STR" -> PyStr(<<"/", "a", "p", "i", "/", "v", "1">>)
          [] f = "PROJECT_NAME" -> PyStr(<<"P", "f", "f", "s", "f", "a", "t">>)
          [] f = "APP_VERSION" -> _load_app_version_from_pyproject(m)
          [] f = "PORT" -> PyInt(8000)
          [] f = "SECRET_KEY" -> PyStr(token)
          [] f = "ENVIRONMENT" -> PyStr(<<"l", "o", "c", "a", "l">>)
          [] f = "FRONTEND_HOST" -> PyStr(<<"h", "t", "t", "p", ":", "/", "/", "l", "o", "c", "a", "l", "h", "o", "s", "t", ":", "8", "0", "8", "0">>)
          [] f = "BACKEND_CORS_ORIGINS" -> PyList(<<>>)
          [] f = "POSTGRES_SERVER" -> PyStr(<<"l", "o", "c", "a", "l", "h", "o", "s", "t">>)
          [] f = "POSTGRES_PORT" -> PyInt(5432)
          [] f = "POSTGRES_USER" -> PyStr(<<"a", "p", "p">>)
          [] f = "POSTGRES_PASSWORD" -> PyStr(<<"c", "h", "a", "n", "g", "e", "t", "h", "i", "s">>)
          [] f = "POSTGRES_DB" -> PyStr(<<"p", "f", "f", "s", "f", "a", "t">>) ]

----------------------------------------------------------------------------
(* pydantic's validation of a raw string from the environment *)

Digits == <<"0", "1", "2", "3", "4", "5", "6", "7", "8", "9">>

IsDigit(c) == \E i \in DOMAIN Digits : Digits[i] = c

DigitValue(c) == (CHOOSE i \in DOMAIN Digits : Digits[i] = c) - 1

RECURSIVE DigitsValue(_)
DigitsValue(s) ==
    IF s = <<>> THEN 0
    ELSE DigitsValue(SubSeq(s, 1, Len(s) - 1)) * 10 + DigitValue(s[Len(s)])

\* int from a string (lax mode): surrounding whitespace, an optional sign, digits
ParseInt(raw) ==
    LET s == Strip(raw)
        signed == s # <<>> /\ Head(s) \in {"+", "-"}
        body == IF signed THEN Tail(s) ELSE s
    IN  IF body # <<>> /\ \A i \in DOMAIN body : IsDigit(body[i])
        THEN [ok |-> TRUE,
              value |-> PyInt(IF signed /\ Head(s) = "-" THEN 0 - DigitsValue(body)
                              ELSE DigitsValue(body))]
        ELSE [ok |-> FALSE]

HostChars ==
    { "a", "b", "c", "d", "e", "f", "g", "h", "i", "j", "k", "l", "m", "n", "o", "p", "q",
      "r", "s", "t", "u", "v", "w", "x", "y", "z", ".", "-", ":" } \cup
    {Digits[i] : i \in DOMAIN Digits}

HttpPrefix == <<"h", "t", "t", "p", ":", "/", "/">>

\* the host of an http URL: what follows the prefix, up to the first "/"
UrlHost(s) == Head(Split(SubSeq(s, Len(HttpPrefix) + 1, Len(s)), "/"))

\* AnyUrl accepts the string; the model knows http URLs with a plain host
IsUrl(s) ==
    /\ StartsWith(s, HttpPrefix)
    /\ UrlHost(s) # <<>>
    /\ \A i \in DOMAIN UrlHost(s) : UrlHost(s)[i] \in HostChars
    /\ \A i \in DOMAIN s : ~IsSpace(s[i])

\* str(AnyUrl(s)): an http URL with an empty path is given the path "/"
UrlStr(s) ==
    IF Len(UrlHost(s)) = Len(s) - Len(HttpPrefix) THEN Append(s, "/") ELSE s

\* json.loads on the value of a complex field. The model decodes flat arrays of
\* quoted strings without escapes and commas, and fails on everything else.
JsonItems(s) ==
    LET inner == Strip(SubSeq(s, 2, Len(s) - 1))
    IN  IF inner = <<>> THEN <<>>
        ELSE [i \in DOMAIN Split(inner, ",") |-> Strip(Split(inner, ",")[i])]

IsQuoted(item) ==
    /\ Len(item) >= 2
    /\ item[1] = "\"" /\ item[Len(item)] = "\""
    /\ \A i \in 2..(Len(item) - 1) : item[i] # "\""

DecodeJson(raw) ==
    LET s == Strip(raw)
    IN  IF /\ Len(s) >= 2
           /\ s[1] = "[" /\ s[Len(s)] = "]"
           /\ \A i \in DOMAIN JsonItems(s) : IsQuoted(JsonItems(s)[i])
        THEN [ok |-> TRUE,
              value |-> PyList([i \in DOMAIN JsonItems(s) |->
                                  PyStr(SubSeq(JsonItems(s)[i], 2, Len(JsonItems(s)[i]) - 1))])]
        ELSE [ok |-> FALSE]

\* EnvSettingsSource.prepare_field_value for list[AnyUrl] | str: a union with a
\* complex member is decoded as JSON, and a value that is not JSON is kept as it is
PrepareComplex(raw) ==
    IF DecodeJson(raw).ok THEN DecodeJson(raw).value ELSE PyStr(raw)

\* list[AnyUrl] | str applied to what parse_cors returned
ValidateOrigins(v) ==
    IF v.t = "str" THEN [ok |-> TRUE, value |-> v]
    ELSE IF v.t = "list" /\ \A i \in DOMAIN v.l : v.l[i].t = "str" /\ IsUrl(v.l[i].s)
    THEN [ok |-> TRUE, value |-> PyList([i \in DOMAIN v.l |-> PyUrl(UrlStr(v.l[i].s))])]
    ELSE [ok |-> FALSE]

\* the BeforeValidator, then the annotated type
ValidateCors(raw) ==
    LET r == parse_cors(PrepareComplex(raw))
    IN  IF r.raised THEN [ok |-> FALSE] ELSE ValidateOrigins(r.value)

\* the validation of field f on the raw string a source gave
ValidateField(f, raw) ==
    CASE f \in IntFields -> ParseInt(raw)
      [] f = "ENVIRONMENT" ->
            IF raw \in EnvironmentLiterals THEN [ok |-> TRUE, value |-> PyStr(raw)]
            ELSE [ok |-> FALSE]
      [] f = "BACKEND_CORS_ORIGINS" -> ValidateCors(raw)
      [] OTHER -> [ok |-> TRUE, value |-> PyStr(raw)]

----------------------------------------------------------------------------
(* The settings sources and Settings() *)

\* the raw value of field f: the environment, then the env file when one is
\* configured and exists; env_ignore_empty drops empty values in both
SourceValue(c, env, file, f) ==
    IF f \in DOMAIN env /\ env[f] # <<>>
    THEN [found |-> TRUE, raw |-> env[f]]
    ELSE IF c.model_config.env_file # "" /\ file.exists /\ f \in DOMAIN file.vars
            /\ file.vars[f] # <<>>
    THEN [found |-> TRUE, raw |-> file.vars[f]]
    ELSE [found |-> FALSE]

\* a plausible slip: the secret is drawn again for every object (a default factory)
FieldResultFreshSecret(c, env, file, f) ==
    IF SourceValue(c, env, file, f).found
    THEN ValidateField(f, SourceValue(c, env, file, f).raw)
    ELSE IF f = "SECRET_KEY"
    THEN [ok |-> TRUE, value |-> PyStr(CHOOSE k \in Tokens : PyStr(k) # c.defaults[f])]
    ELSE [ok |-> TRUE, value |-> c.defaults[f]]

\* a field no source provides takes its default, which is not validated
FieldResult(c, env, file, f) ==
    IF SourceValue(c, env, file, f).found
    THEN ValidateField(f, SourceValue(c, env, file, f).raw)
    ELSE [ok |-> TRUE, value |-> c.defaults[f]]

\* a plausible slip: validation stops at the first field that fails
ValidationErrorsFirstOnly(c, env, file) ==
    LET all == SelectSeq(FieldOrder, LAMBDA f : ~FieldResult(c, env, file, f).ok)
    IN  IF all = <<>> THEN <<>> ELSE <<Head(all)>>

\* the fields the ValidationError lists, in declaration order
ValidationErrors(c, env, file) ==
    SelectSeq(FieldOrder, LAMBDA f : ~FieldResult(c, env, file, f).ok)

\* Settings(): a new object holding every field, or a ValidationError
Construct(c, env, file) ==
    IF ValidationErrors(c, env, file) = <<>>
    THEN Returned([f \in Fields |-> FieldResult(c, env, file, f).value])
    ELSE Raised("ValidationError", ValidationErrors(c, env, file))

NoError == [raised |-> FALSE]

NoCall == [fn |-> "none"]

----------------------------------------------------------------------------
(* The computed field all_cors_origins *)

RECURSIVE NatStr(_)
NatStr(n) == IF n < 10 THEN <<Digits[n + 1]>> ELSE Append(NatStr(n \div 10), Digits[(n % 10) + 1])

\* str(v)
StrOf(v) ==
    CASE v.t \in {"str", "AnyUrl"} -> v.s
      [] v.t = "int" -> IF v.n < 0 THEN <<"-">> \o NatStr(0 - v.n) ELSE NatStr(v.n)
      [] OTHER -> <<"N", "o", "n", "e">>

\* what `for origin in v` yields: the elements of a list, the characters of a str
Iterable(v) == v.t \in {"list", "str"}

IterItems(v) == IF v.t = "list" THEN v.l ELSE [i \in DOMAIN v.s |-> PyStr(<<v.s[i]>>)]

\* a plausible slip: the frontend host is normalised like the other origins
all_cors_origins_strips_host(self) ==
    IF ~Iterable(self["BACKEND_CORS_ORIGINS"])
    THEN Raised("TypeError", self["BACKEND_CORS_ORIGINS"])
    ELSE LET items == IterItems(self["BACKEND_CORS_ORIGINS"])
         IN  Returned(PyList([i \in DOMAIN items |-> PyStr(RStrip(StrOf(items[i]), "/"))]
                             \o <<PyStr(RStrip(StrOf(self["FRONTEND_HOST"]), "/"))>>))

all_cors_origins(self) ==
    IF ~Iterable(self["BACKEND_CORS_ORIGINS"])
    THEN Raised("TypeError", self["BACKEND_CORS_ORIGINS"])
    ELSE LET items == IterItems(self["BACKEND_CORS_ORIGINS"])
         IN  Returned(PyList([i \in DOMAIN items |-> PyStr(RStrip(StrOf(items[i]), "/"))]
                             \o <<self["FRONTEND_HOST"]>>))

----------------------------------------------------------------------------
(* The computed field SQLALCHEMY_DATABASE_URI: PostgresDsn.build, which formats *)
(* the URL and parses it                                                        *)

Scheme == <<"p", "o", "s", "t", "g", "r", "e", "s", "q", "l", "+", "p", "s", "y", "c", "o", "p", "g">>

\* the percent-escapes of the characters the model's strings are made of
Escapes ==
    << <<"@", <<"%", "4", "0">>>>, <<":", <<"%", "3", "A">>>>, <<"/", <<"%", "2", "F">>>>,
       <<"#", <<"%", "2", "3">>>>,
       <<"?", <<"%", "3", "F">>>>, <<"%", <<"%", "2", "5">>>>, <<" ", <<"%", "2", "0">>>> >>

EscapeOf(c) == (CHOOSE i \in DOMAIN Escapes : Escapes[i][1] = c)

\* percent-encode the characters of `set` in s
RECURSIVE PercentEncode(_, _)
PercentEncode(s, set) ==
    IF s = <<>> THEN <<>>
    ELSE (IF Head(s) \in set THEN Escapes[EscapeOf(Head(s))][2] ELSE <<Head(s)>>)
         \o PercentEncode(Tail(s), set)

\* percent-decode s
RECURSIVE PercentDecode(_)
PercentDecode(s) ==
    IF s = <<>> THEN <<>>
    ELSE IF Len(s) >= 3 /\ \E i \in DOMAIN Escapes : Escapes[i][2] = SubSeq(s, 1, 3)
    THEN <<Escapes[CHOOSE i \in DOMAIN Escapes : Escapes[i][2] = SubSeq(s, 1, 3)][1]>>
         \o PercentDecode(SubSeq(s, 4, Len(s)))
    ELSE <<Head(s)>> \o PercentDecode(Tail(s))

\* the characters the URL parser escapes in the userinfo and in the path
UserinfoSet == {" ", "#", "?", "/", ":", "@"}
PathSet == {" ", "#", "?"}

\* the characters Url.build escapes in username and password, when it escapes
BuildUserinfoSet == UserinfoSet \cup {"%"}

\* index of the first character of s that is in set, or Len(s) + 1
FirstIn(s, set) ==
    IF \E i \in DOMAIN s : s[i] \in set
    THEN CHOOSE i \in DOMAIN s : s[i] \in set /\ \A j \in 1..(i - 1) : s[j] \notin set
    ELSE Len(s) + 1

\* index of the last character of s that is c, or 0
LastOf(s, c) ==
    IF \E i \in DOMAIN s : s[i] = c
    THEN CHOOSE i \in DOMAIN s : s[i] = c /\ \A j \in (i + 1)..Len(s) : s[j] # c
    ELSE 0

\* The URL parser on scheme://authority/path?query#fragment for a scheme that is
\* not special: the authority ends at the first "/", "?" or "#"; its last "@"
\* ends the userinfo, whose first ":" separates username and password; the last
\* ":" of the rest starts the port.
ParseUrl(s) ==
    LET prefix == Scheme \o <<":", "/", "/">>
        rest == SubSeq(s, Len(prefix) + 1, Len(s))
        authEnd == FirstIn(rest, {"/", "?", "#"})
        authority == SubSeq(rest, 1, authEnd - 1)
        tail == SubSeq(rest, authEnd, Len(rest))
        at == LastOf(authority, "@")
        userinfo == SubSeq(authority, 1, at - 1)
        hostport == SubSeq(authority, at + 1, Len(authority))
        colon == FirstIn(userinfo, {":"})
        username == SubSeq(userinfo, 1, colon - 1)
        password == SubSeq(userinfo, colon + 1, Len(userinfo))
        pcolon == LastOf(hostport, ":")
        host == IF pcolon = 0 THEN hostport ELSE SubSeq(hostport, 1, pcolon - 1)
        port == IF pcolon = 0 THEN <<>> ELSE SubSeq(hostport, pcolon + 1, Len(hostport))
        pathEnd == FirstIn(tail, {"?", "#"})
        path == SubSeq(tail, 1, pathEnd - 1)
        afterPath == SubSeq(tail, pathEnd, Len(tail))
        hash == FirstIn(afterPath, {"#"})
        query == IF afterPath # <<>> /\ Head(afterPath) = "?"
                 THEN SubSeq(afterPath, 2, hash - 1) ELSE <<>>
        fragment == SubSeq(afterPath, hash + 1, Len(afterPath))
    IN  IF /\ StartsWith(s, prefix)
           /\ host # <<>>
           /\ \A i \in DOMAIN host : host[i] \notin {" ", "#", "/", ":", "?", "@"}
           /\ \A i \in DOMAIN port : IsDigit(port[i])
           /\ DigitsValue(port) <= 65535
        THEN [ok |-> TRUE,
              username |-> PercentEncode(username, UserinfoSet),
              password |-> PercentEncode(password, UserinfoSet),
              host |-> host,
              port |-> port,
              path |-> PercentEncode(path, PathSet),
              query |-> query,
              fragment |-> fragment]
        ELSE [ok |-> FALSE]

\* str() of a parsed URL
Serialize(u) ==
    Scheme \o <<":", "/", "/">> \o u.username
    \o (IF u.password # <<>> THEN <<":">> \o u.password ELSE <<>>)
    \o (IF u.username # <<>> \/ u.password # <<>> THEN <<"@">> ELSE <<>>)
    \o u.host
    \o (IF u.port # <<>> THEN <<":">> \o u.port ELSE <<>>)
    \o u.path
    \o (IF u.query # <<>> THEN <<"?">> \o u.query ELSE <<>>)
    \o (IF u.fragment # <<>> THEN <<"#">> \o u.fragment ELSE <<>>)

\* PostgresDsn.build(scheme=, username=, password=, host=, port=, path=): the
\* parts are joined and the result is validated as a URL. l.escapes_userinfo
\* tells whether the installed pydantic percent-encodes username and password.
Build(l, username, password, host, port, path) ==
    LET enc(x) == IF l.escapes_userinfo THEN PercentEncode(x, BuildUserinfoSet) ELSE x
        text == Scheme \o <<":", "/", "/">> \o enc(username) \o <<":">> \o enc(password) \o <<"@">>
                \o host \o <<":">> \o port \o <<"/">> \o path
    IN  IF ParseUrl(text).ok
        THEN Returned([t |-> "PostgresDsn", s |-> Serialize(ParseUrl(text))])
        ELSE Raised("ValidationError", PyStr(text))

SQLALCHEMY_DATABASE_URI(self, l) ==
    IF \/ \E f \in {"POSTGRES_USER", "POSTGRES_PASSWORD", "POSTGRES_SERVER", "POSTGRES_DB"} :
             self[f].t # "str"
       \/ self["POSTGRES_PORT"].t # "int"
    THEN Raised("TypeError", PyNone)
    ELSE Build(l, self["POSTGRES_USER"].s, self["POSTGRES_PASSWORD"].s,
               self["POSTGRES_SERVER"].s, StrOf(self["POSTGRES_PORT"]), self["POSTGRES_DB"].s)

----------------------------------------------------------------------------
(* Operations *)

\* lines 54-121: the class body runs once, when the module is imported
ClassBody ==
    /\ pc = "start"
    /\ \E token \in Tokens :
          cls' = [model_config |-> ModelConfig(environ), defaults |-> Defaults(manifest, token)]
    /\ draws' = draws + 1
    /\ pc' = "class"
    /\ UNCHANGED <<environ, dotenv, manifest, lib, snaps, error, assigns, call>>

\* line 125: settings = Settings(); a ValidationError aborts the import
CreateSettings ==
    /\ pc = "class"
    /\ LET r == Construct(cls, environ, dotenv)
       IN  IF r.raised
           THEN /\ error' = r
                /\ pc' = "failed"
                /\ snaps' = snaps
           ELSE /\ snaps' = <<r.value>>
                /\ pc' = "ready"
                /\ error' = error
    /\ UNCHANGED <<environ, dotenv, manifest, lib, cls, draws, assigns, call>>

Next == ClassBody \/ CreateSettings

----------------------------------------------------------------------------
(* Inputs *)

\* number of fields that the environment and the .env file set between them
MaxVars == 1

\* the values a field takes in the process environment
EnvCand(f) ==
    CASE f \in IntFields -> { <<>>, <<"9", "0", "0", "0">>, <<"x">> }
      [] f = "ENVIRONMENT" -> { <<>>, <<"s", "t", "a", "g", "i", "n", "g">>, <<"p", "r", "o", "d">> }
      [] f = "FRONTEND_HOST" -> { <<>>, <<"h", "t", "t", "p", ":", "/", "/", "f", "/">> }
      [] f = "BACKEND_CORS_ORIGINS" ->
            { <<>>, <<"h", "t", "t", "p", ":", "/", "/", "a", ",", " ", "h", "t", "t", "p", ":", "/", "/", "b", "/">>, <<"[", "h", "t", "t", "p", ":", "/", "/", "a", "]">>, <<"[", "\"", "h", "t", "t", "p", ":", "/", "/", "a", "/", "\"", "]">>, <<"a">> }
      [] OTHER -> { <<>>, <<"e">> }

\* the values a field takes in the .env file
FileCand(f) ==
    CASE f \in IntFields -> { <<>>, <<"7", "0", "0", "0">> }
      [] f = "ENVIRONMENT" -> { <<>>, <<"p", "r", "o", "d", "u", "c", "t", "i", "o", "n">> }
      [] f = "FRONTEND_HOST" -> { <<>>, <<"h", "t", "t", "p", ":", "/", "/", "d">> }
      [] f = "BACKEND_CORS_ORIGINS" -> { <<>>, <<"h", "t", "t", "p", ":", "/", "/", "d">> }
      [] OTHER -> { <<>>, <<"d">> }

\* the assignments of the names S, each to one of its candidates cand[n]
Assignments(S, cand) ==
    {a \in [S -> UNION {cand[n] : n \in S}] : \A n \in S : a[n] \in cand[n]}

EnvCands == [f \in Fields |-> EnvCand(f)]

FileCands == [f \in Fields |-> FileCand(f)]

\* TESTING unset, set and empty, set to "1"
TestingChoices == { <<>>, [n \in {"TESTING"} |-> <<>>], [n \in {"TESTING"} |-> <<"1">>] }

StandardManifest == [state |-> "parsed",
                     project |-> [t |-> "table", version |-> PyStr(<<"0", ".", "1", ".", "0">>)]]

Start(env, file, m, l) ==
    /\ environ = env
    /\ dotenv = file
    /\ manifest = m
    /\ lib = l
    /\ pc = "start"
    /\ cls = [model_config |-> <<>>, defaults |-> <<>>]
    /\ draws = 0
    /\ snaps = <<>>
    /\ error = NoError
    /\ assigns = 0
    /\ call = NoCall

Init ==
    \E U \in {S \in SUBSET Fields : Cardinality(S) <= MaxVars} :
    \E E \in SUBSET U, D \in SUBSET U :
      /\ E \cup D = U
      /\ \E e \in Assignments(E, EnvCands), d \in Assignments(D, FileCands),
            t \in TestingChoices, exists \in BOOLEAN :
           /\ D # {} => exists
           /\ Start(e @@ t, [exists |-> exists, vars |-> d], StandardManifest,
                    [escapes_userinfo |-> TRUE])

Spec == Init /\ [][Next]_vars

----------------------------------------------------------------------------
(* Client code: further Settings() calls and attribute assignments *)

\* number of Settings objects constructed in one process
MaxObjects == 2
\* number of attribute assignments attempted in one process
MaxAssign == 1

\* Settings() called again by code that imported the class
ConstructAgain ==
    /\ pc = "ready"
    /\ Len(snaps) < MaxObjects
    /\ LET r == Construct(cls, environ, dotenv)
       IN  IF r.raised
           THEN error' = r /\ snaps' = snaps
           ELSE snaps' = Append(snaps, r.value) /\ error' = NoError
    /\ UNCHANGED <<environ, dotenv, manifest, lib, pc, cls, draws, assigns, call>>

\* BaseModel.__setattr__ with the model_config of the class: a field is stored
\* without validation, a computed field is a property without a setter, any
\* other name is refused
SetAttrResult(c, self, name, v) ==
    IF name \in ComputedFields THEN Raised("AttributeError", PyNone)
    ELSE IF name \notin Fields THEN Raised("ValueError", PyNone)
    ELSE IF c.model_config.frozen THEN Raised("ValidationError", PyNone)
    ELSE Returned([self EXCEPT ![name] = v])

\* snaps[i].name = v
SetAttr(i, name, v) ==
    /\ pc = "ready"
    /\ assigns < MaxAssign
    /\ i \in DOMAIN snaps
    /\ LET r == SetAttrResult(cls, snaps[i], name, v)
       IN  IF r.raised
           THEN error' = r /\ snaps' = snaps
           ELSE snaps' = [snaps EXCEPT ![i] = r.value] /\ error' = NoError
    /\ assigns' = assigns + 1
    /\ UNCHANGED <<environ, dotenv, manifest, lib, pc, cls, draws, call>>

AttrNames == Fields \cup ComputedFields \cup {"other"}

AttrValues == { PyStr(<<"z", "/">>), PyInt(1) }

NextClient ==
    \/ Next
    \/ ConstructAgain
    \/ \E i \in 1..MaxObjects, name \in AttrNames, v \in AttrValues : SetAttr(i, name, v)

\* one variable of the environment set, no .env file
InitClient ==
    \E U \in {S \in SUBSET Fields : Cardinality(S) <= 1} :
    \E e \in Assignments(U, EnvCands) :
        Start(e, [exists |-> FALSE, vars |-> <<>>], StandardManifest,
              [escapes_userinfo |-> TRUE])

SpecClient == InitClient /\ [][NextClient]_vars

----------------------------------------------------------------------------
(* The validated fields *)

ValidatedFields == IntFields \cup {"ENVIRONMENT", "BACKEND_CORS_ORIGINS"}

\* any of the validated fields set in the environment, to good and bad values
InitValidate ==
    \E E \in SUBSET ValidatedFields :
    \E e \in Assignments(E, EnvCands) :
        Start(e, [exists |-> FALSE, vars |-> <<>>], StandardManifest,
              [escapes_userinfo |-> TRUE])

SpecValidate == InitValidate /\ [][Next]_vars

----------------------------------------------------------------------------
(* The version manifest *)

TomlValues == { PyStr(<<>>), PyStr(<<"1", ".", "2", ".", "3">>), PyInt(0), PyInt(1), PyList(<<>>),
                PyList(<<PyInt(1)>>) }

Manifests ==
    { [state |-> "missing"], [state |-> "unreadable"], [state |-> "invalid"] } \cup
    { [state |-> "parsed", project |-> p] :
        p \in {[t |-> "absent"]} \cup TomlValues \cup
              { [t |-> "table", version |-> v] : v \in {[t |-> "absent"]} \cup TomlValues } }

InitVersion ==
    \E m \in Manifests :
    \E E \in SUBSET {"APP_VERSION"}, D \in SUBSET {"APP_VERSION"} :
    \E e \in Assignments(E, EnvCands), d \in Assignments(D, FileCands) :
        Start(e, [exists |-> TRUE, vars |-> d], m, [escapes_userinfo |-> TRUE])

SpecVersion == InitVersion /\ [][Next]_vars

----------------------------------------------------------------------------
(* The database settings *)

\* longest value drawn for a database setting
MaxUriLen == 2

UriAlphabet == {"z", "@", ":", "/", "#", "?", "%"}

\* host names and ports a URL accepts; any text for user, password and database
DbCand(f) ==
    CASE f = "POSTGRES_PORT" -> { <<"5", "4", "3", "3">>, <<"1">> }
      [] f = "POSTGRES_SERVER" -> StringsUpTo({"z", "."}, MaxUriLen) \ {<<>>}
      [] OTHER -> StringsUpTo(UriAlphabet, MaxUriLen) \ {<<>>}

DbFields == {"POSTGRES_SERVER", "POSTGRES_PORT", "POSTGRES_USER", "POSTGRES_PASSWORD",
             "POSTGRES_DB"}

\* one database setting in the environment
InitUriWith(esc) ==
    \E U \in {S \in SUBSET DbFields : Cardinality(S) <= 1} :
    \E e \in Assignments(U, [f \in DbFields |-> DbCand(f)]) :
        Start(e, [exists |-> FALSE, vars |-> <<>>], StandardManifest,
              [escapes_userinfo |-> esc])

\* Url.build of current pydantic-core percent-encodes the credentials; earlier
\* versions join them as they are
InitUri == InitUriWith(TRUE) \/ InitUriWith(FALSE)

SpecUri == InitUri /\ [][Next]_vars

----------------------------------------------------------------------------
(* Direct calls of parse_cors *)

CorsAlphabet == {"a", ",", " ", "[", "/"}

ExampleOrigins == <<"h", "t", "t", "p", ":", "/", "/", "a", ".", "c", "o", "m", ",", " ", "h", "t", "t", "p", ":", "/", "/", "b", ".", "c", "o", "m">>

ParseInputs ==
    {PyStr(s) : s \in StringsUpTo(CorsAlphabet, MaxLen) \cup {ExampleOrigins}}
    \cup {PyList(l) : l \in StringsUpTo({PyStr(<<"a">>), PyStr(<<"[">>)}, MaxList)}
    \cup {PyNone, PyInt(0), PyInt(1), PyDict}

\* parse_cors(v), called directly on the argument the run drew
CallParseCors ==
    /\ call.fn = "pending"
    /\ call' = [fn |-> "parse_cors", arg |-> call.arg, out |-> parse_cors(call.arg)]
    /\ UNCHANGED <<environ, dotenv, manifest, lib, pc, cls, draws, snaps, error, assigns>>

NextParse == CallParseCors

InitParse ==
    \E v \in ParseInputs :
        /\ environ = <<>>
        /\ dotenv = [exists |-> FALSE, vars |-> <<>>]
        /\ manifest = StandardManifest
        /\ lib = [escapes_userinfo |-> TRUE]
        /\ pc = "start"
        /\ cls = [model_config |-> <<>>, defaults |-> <<>>]
        /\ draws = 0
        /\ snaps = <<>>
        /\ error = NoError
        /\ assigns = 0
        /\ call = [fn |-> "pending", arg |-> v]

SpecParse == InitParse /\ [][NextParse]_vars

----------------------------------------------------------------------------
(* Source precedence *)

NonEmptyIn(given, f) == f \in DOMAIN given /\ given[f] # <<>>

\* the value the claimed precedence gives field f, the .env file being skipped
\* when skipFile holds
ByPrecedence(f, skipFile) ==
    IF NonEmptyIn(environ, f) THEN ValidateField(f, environ[f]).value
    ELSE IF dotenv.exists /\ NonEmptyIn(dotenv.vars, f) /\ ~skipFile
    THEN ValidateField(f, dotenv.vars[f]).value
    ELSE cls.defaults[f]

\* C1 as stated: every field of the snapshot is the environment's non-empty
\* value, else the .env file's non-empty value unless TESTING is set, else the
\* default; with TESTING set nothing of the .env file reaches the snapshot.
C1_AsStated ==
    pc = "ready" => \A f \in Fields : snaps[1][f] = ByPrecedence(f, "TESTING" \in DOMAIN environ)

\* C1 amended: the same precedence, the .env file being skipped when TESTING
\* is set to a non-empty value (a TESTING that is set but empty does not skip it).
C1_Precedence ==
    pc = "ready" => \A f \in Fields : snaps[1][f] = ByPrecedence(f, NonEmptyIn(environ, "TESTING"))

\* a snapshot built with TESTING=1 beside a .env file whose entry is not used
C1_Witness ==
    /\ pc = "ready"
    /\ NonEmptyIn(environ, "TESTING")
    /\ \E f \in Fields : /\ NonEmptyIn(dotenv.vars, f)
                         /\ ~NonEmptyIn(environ, f)
                         /\ snaps[1][f] = cls.defaults[f]
                         /\ snaps[1][f] # ValidateField(f, dotenv.vars[f]).value

----------------------------------------------------------------------------
(* Validation *)

\* the raw value the sources give field f, if any
Provided(f) == SourceValue(cls, environ, dotenv, f)

\* field f is given a value its type refuses
Offending(f) ==
    /\ Provided(f).found
    /\ CASE f = "ENVIRONMENT" -> Provided(f).raw \notin EnvironmentLiterals
         [] f \in IntFields -> ~ParseInt(Provided(f).raw).ok
         [] f = "BACKEND_CORS_ORIGINS" ->
               LET r == parse_cors(PrepareComplex(Provided(f).raw))
               IN  \/ r.raised
                   \/ /\ r.value.t = "list"
                      /\ \E i \in DOMAIN r.value.l :
                            ~(r.value.l[i].t = "str" /\ IsUrl(r.value.l[i].s))
         [] OTHER -> FALSE

----------------------------------------------------------------------------
(* Effective CORS origins *)

Origins == all_cors_origins(snaps[1])

HostOf(self) == self["FRONTEND_HOST"]

\* C6 as stated: the list is never empty and holds FRONTEND_HOST with its
\* trailing slash stripped; with no origin configured it is exactly that one
\* stripped host.
C6_AsStated ==
    pc = "ready" =>
        /\ ~Origins.raised
        /\ Len(Origins.value.l) >= 1
        /\ \E i \in DOMAIN Origins.value.l :
              Origins.value.l[i] = PyStr(RStrip(HostOf(snaps[1]).s, "/"))
        /\ snaps[1]["BACKEND_CORS_ORIGINS"] = PyList(<<>>) =>
              Origins.value.l = <<PyStr(RStrip(HostOf(snaps[1]).s, "/"))>>

\* C6 amended: the list is never empty and its last element is FRONTEND_HOST as
\* configured, trailing slash included; with no origin configured it is exactly
\* that one element.
C6_HostLast ==
    pc = "ready" =>
        /\ ~Origins.raised
        /\ Len(Origins.value.l) >= 1
        /\ Origins.value.l[Len(Origins.value.l)] = HostOf(snaps[1])
        /\ snaps[1]["BACKEND_CORS_ORIGINS"] = PyList(<<>>) =>
              Origins.value.l = <<HostOf(snaps[1])>>

\* a snapshot with no origin configured and a frontend host ending in "/"
C6_Witness ==
    /\ pc = "ready"
    /\ snaps[1]["BACKEND_CORS_ORIGINS"] = PyList(<<>>)
    /\ HostOf(snaps[1]).s # RStrip(HostOf(snaps[1]).s, "/")
    /\ Origins.value.l = <<HostOf(snaps[1])>>

\* the origins a raw BACKEND_CORS_ORIGINS value lists: the items of a JSON
\* array, else the comma-separated entries (of what the brackets enclose)
ListedOrigins(raw) ==
    IF DecodeJson(raw).ok THEN [i \in DOMAIN DecodeJson(raw).value.l |-> DecodeJson(raw).value.l[i].s]
    ELSE IF StartsWith(raw, <<"[">>)
    THEN SelectSeq([i \in DOMAIN Split(RStrip(Tail(raw), "]"), ",") |->
                        Strip(Split(RStrip(Tail(raw), "]"), ",")[i])],
                   LAMBDA x : x # <<>>)
    ELSE SelectSeq([i \in DOMAIN Split(raw, ",") |-> Strip(Split(raw, ",")[i])],
                   LAMBDA x : x # <<>>)

\* C9: for every accepted BACKEND_CORS_ORIGINS, stored as a list of URLs or as
\* a string starting with "[", all_cors_origins is the input's origins in
\* order, each without its trailing slash, then FRONTEND_HOST unmodified: one
\* element more than the input has origins.
C9_OriginsThenHost ==
    (pc = "ready" /\ Provided("BACKEND_CORS_ORIGINS").found) =>
        LET listed == ListedOrigins(Provided("BACKEND_CORS_ORIGINS").raw)
        IN  /\ ~Origins.raised
            /\ Origins.value.l =
                  [i \in DOMAIN listed |-> PyStr(RStrip(listed[i], "/"))] \o <<HostOf(snaps[1])>>
            /\ Len(Origins.value.l) = Len(listed) + 1

----------------------------------------------------------------------------
(* Assignment after construction *)

\* C3: no step changes a field of a constructed Settings object.
C3_NeverChanges ==
    [][\A i \in DOMAIN snaps : snaps'[i] = snaps[i]]_vars

----------------------------------------------------------------------------
(* The default secret key *)

\* two objects constructed from the same input, none supplying SECRET_KEY,
\* before any assignment
TwoUnkeyed ==
    /\ Len(snaps) >= 2
    /\ assigns = 0
    /\ ~Provided("SECRET_KEY").found

\* C4 as stated: the two agree on every field but SECRET_KEY, and each
\* SECRET_KEY is generated for its own resolution: one draw per object.
C4_AsStated ==
    TwoUnkeyed =>
        /\ \A f \in Fields \ {"SECRET_KEY"} : snaps[1][f] = snaps[2][f]
        /\ draws >= Len(snaps)

\* C4 amended: the two agree on every field, SECRET_KEY included: both hold the
\* one token drawn when the class body ran, and no construction draws another.
C4_SharedSecret ==
    TwoUnkeyed =>
        /\ \A f \in Fields : snaps[1][f] = snaps[2][f]
        /\ snaps[1]["SECRET_KEY"] = cls.defaults["SECRET_KEY"]
        /\ snaps[1]["SECRET_KEY"].s \in Tokens
        /\ draws = 1

\* two objects constructed without a supplied SECRET_KEY
C4_Witness ==
    /\ TwoUnkeyed
    /\ snaps[1]["SECRET_KEY"] = snaps[2]["SECRET_KEY"]

----------------------------------------------------------------------------
(* The application version *)

\* C5: the loader returns a string, "0.0.0" or the manifest's project.version,
\* and APP_VERSION of the snapshot is a string, whatever the manifest holds.
C5_AlwaysString ==
    /\ pc # "start" =>
          /\ cls.defaults["APP_VERSION"].t = "str"
          /\ \/ cls.defaults["APP_VERSION"] = FallbackVersion
             \/ /\ manifest.state = "parsed" /\ manifest.project.t = "table"
                /\ cls.defaults["APP_VERSION"] = manifest.project.version
    /\ pc = "ready" => snaps[1]["APP_VERSION"].t = "str"

----------------------------------------------------------------------------
(* The database URI *)

Uri == SQLALCHEMY_DATABASE_URI(snaps[1], lib)

\* C7: for every user, password, host, port and database name the URI is
\* produced, starts with postgresql+psycopg://, and parsing it gives back the
\* five values.
C7_RoundTrip ==
    pc = "ready" =>
        /\ ~Uri.raised
        /\ StartsWith(Uri.value.s, Scheme \o <<":", "/", "/">>)
        /\ LET u == ParseUrl(Uri.value.s)
           IN  /\ u.ok
               /\ PercentDecode(u.username) = snaps[1]["POSTGRES_USER"].s
               /\ PercentDecode(u.password) = snaps[1]["POSTGRES_PASSWORD"].s
               /\ u.host = snaps[1]["POSTGRES_SERVER"].s
               /\ u.port = StrOf(snaps[1]["POSTGRES_PORT"])
               /\ PercentDecode(u.path) = <<"/">> \o snaps[1]["POSTGRES_DB"].s
               /\ u.query = <<>> /\ u.fragment = <<>>

----------------------------------------------------------------------------
(* parse_cors *)

Commas(s) == {i \in DOMAIN s : s[i] = ","}

\* the k-th comma-free segment of s, by the positions of the commas around it
Segment(s, k) ==
    LET from == CHOOSE p \in {0} \cup Commas(s) : Cardinality({q \in Commas(s) : q <= p}) = k - 1
        upto == IF \E q \in Commas(s) : q > from
                THEN CHOOSE q \in Commas(s) : q > from /\ \A r \in Commas(s) : r > from => q <= r
                ELSE Len(s) + 1
    IN  SubSeq(s, from + 1, upto - 1)

\* s without its leading and trailing whitespace, by the positions of the rest
Trimmed(s) ==
    LET solid == {i \in DOMAIN s : ~IsSpace(s[i])}
    IN  IF solid = {} THEN <<>>
        ELSE SubSeq(s, CHOOSE i \in solid : \A j \in solid : i <= j,
                       CHOOSE i \in solid : \A j \in solid : j <= i)

ExpectedPieces(s) ==
    LET all == [k \in 1..(Cardinality(Commas(s)) + 1) |-> PyStr(Trimmed(Segment(s, k)))]
    IN  SelectSeq(all, LAMBDA x : x.s # <<>>)

DirectCall == call.fn = "parse_cors"

\* C8: on a string that does not start with "[", parse_cors returns the
\* comma-separated pieces, trimmed, the empty ones dropped, in order.
C8_SplitTrimDrop ==
    (DirectCall /\ call.arg.t = "str" /\ ~StartsWith(call.arg.s, <<"[">>)) =>
        /\ call.out = Returned(PyList(ExpectedPieces(call.arg.s)))
        /\ call.arg.s = ExampleOrigins =>
              call.out.value.l = <<PyStr(<<"h", "t", "t", "p", ":", "/", "/", "a", ".", "c", "o", "m">>), PyStr(<<"h", "t", "t", "p", ":", "/", "/", "b", ".", "c", "o", "m">>)>>
        /\ call.arg.s = <<>> => call.out.value.l = <<>>

\* a call on a string with an empty piece and a piece to trim
C8_Witness ==
    /\ DirectCall
    /\ call.arg = PyStr(<<"a", ",", ",", " ">>)
    /\ call.out = Returned(PyList(<<PyStr(<<"a">>)>>))

\* C10: a list, or a string starting with "[", is returned unchanged; any
\* other argument that is not a string raises an error carrying the argument.
C10_PassOrRaise ==
    DirectCall =>
        /\ (call.arg.t = "list" \/ (call.arg.t = "str" /\ StartsWith(call.arg.s, <<"[">>)))
              => call.out = Returned(call.arg)
        /\ call.arg.t \notin {"str", "list"}
              => call.out.raised /\ call.out.exc = "ValueError" /\ call.out.arg = call.arg

\* a call on None that raised
C10_Witness ==
    /\ DirectCall
    /\ call.arg = PyNone
    /\ call.out.raised
    /\ call.out.arg = PyNone

====
